---- MODULE Spec2Model ----
(***************************************************************************)
(* A model of the Livy word-frequency pipeline (src/src/analyzer.py,       *)
(* src/src/text_extractor.py, src/src/downloader.py), of its read facade   *)
(* and of the word lookup of the dashboard (app/dashboard.py).             *)
(*                                                                         *)
(* Spec is the pipeline with a reader calling the facade, SpecPipeline the *)
(* pipeline alone, SpecDashboard the pipeline with a run of main(), and    *)
(* SpecFn a direct call of tokenize or extract_snippets.                   *)
(*                                                                         *)
(* Texts and words are sequences of characters; a character is a one-      *)
(* symbol string.  Two characters outside ASCII are written by name:       *)
(* "a_macron" is U+0101 and "ae_lig" is U+00E6.                            *)
(*                                                                         *)
(* Python floats are modelled as exact rationals <<num, den>> in lowest    *)
(* terms, so two equal quotients have equal representations.               *)
(*                                                                         *)
(* Python dicts are modelled as functions; their iteration order only      *)
(* decides the order of INSERT statements, and tables are sets of rows.    *)
(* The AUTOINCREMENT id of the snippets table is not modelled.             *)
(***************************************************************************)
EXTENDS Integers, Sequences, FiniteSets, TLC

VARIABLES
    texts_dir,        \* book_id -> the file data/texts/<book_id>.txt
    db,               \* the committed content of the SQLite file at db_path
    pc,               \* position of the pipeline process in run_analysis
    cfg,              \* min_word_freq and max_snippets_per_book of run_analysis
    txn,              \* rows inserted by the writer's connection, not yet committed
    prior,            \* history: content of db when the current run started
    result,           \* what the call of the one reader returned (or raised)
    page,             \* position and outcome of one run of main() of app/dashboard.py
    args              \* the arguments of a direct call of tokenize or extract_snippets

vars == <<texts_dir, db, pc, cfg, txn, prior, result, page, args>>

-----------------------------------------------------------------------------
(* Bounds of the model *)

NumBooks == 2            \* number of entries of BOOKS that are modelled
MaxMinWordFreq == 2      \* min_word_freq ranges over 1..MaxMinWordFreq
MaxSnippetsArg == 1      \* max_snippets_per_book ranges over 0..MaxSnippetsArg
MaxLimit == 1            \* query limit is -1, 0 or MaxLimit
MaxMinCount == 2         \* query min_count is 1 or MaxMinCount
MaxTextLen == 4          \* length of the text of a direct call
MaxContext == 1          \* context_chars of a direct call ranges over 0..MaxContext
MaxSnippets == 2         \* max_snippets of a direct call ranges over 1..MaxSnippets

(* Program constants *)

PER_TEN_THOUSAND == 10000       \* analyzer.py:28
DEFAULT_CONTEXT_CHARS == 50     \* analyzer.py:34

-----------------------------------------------------------------------------
(* Generic helpers *)

\* a file of data/texts that does not exist
Missing == [exists |-> FALSE, text |-> <<>>]
File(t) == [exists |-> TRUE, text |-> t]
NoneVal == [kind |-> "none"]

\* The element of a one-element set: The({F(x) : x \in {e}}) is F(e) with e
\* evaluated once and its value named x.
The(S) == CHOOSE x \in S : TRUE

Min2(a, b) == IF a < b THEN a ELSE b
Max2(a, b) == IF a > b THEN a ELSE b

RECURSIVE GCD(_, _)
GCD(a, b) == IF b = 0 THEN a ELSE GCD(b, a % b)

\* What a division by zero leaves instead of a number: Python raises
\* ZeroDivisionError.
ZeroDivisionError == <<1, 0>>

\* Python true division n / d of two non-negative ints
TrueDiv(n, d) ==
    IF d = 0 THEN ZeroDivisionError
    ELSE LET g == GCD(n, d) IN <<n \div g, d \div g>>

\* Python float multiplication of a rational by an int
FloatMulInt(q, k) == TrueDiv(q[1] * k, q[2])

Zero == <<0, 1>>

\* q1 <= q2 on rationals with positive denominators.
RatLeq(q1, q2) == q1[1] * q2[2] <= q2[1] * q1[2]

RECURSIVE SumOver(_, _)
\* sum(f.values()) restricted to the keys in S
SumOver(f, S) ==
    IF S = {} THEN 0
    ELSE LET k == CHOOSE x \in S : TRUE IN f[k] + SumOver(f, S \ {k})

Range(s) == {s[k] : k \in 1..Len(s)}

\* All orderings of the finite set S as sequences without repetition.
Perms(S) ==
    {s \in [1..Cardinality(S) -> S] : \A a, b \in 1..Cardinality(S) : a # b => s[a] # s[b]}

-----------------------------------------------------------------------------
(* Characters *)

AsciiLower == {"a", "b", "e"}
AsciiUpper == {"A"}
Digits == {"1"}

\* text_extractor.py:16-25, restricted to the modelled characters
DIACRITIC_MAP ==
    << <<"a_macron", <<"a">> >>,
       <<"ae_lig", <<"a", "e">> >> >>

DiacriticChars == {DIACRITIC_MAP[k][1] : k \in 1..Len(DIACRITIC_MAP)}

\* The character class of LATIN_WORD_PATTERN
IsLatinLetter(c) == c \in AsciiLower \cup AsciiUpper \cup DiacriticChars

\* \w of Python's re on str: letters, digits and the underscore
IsWordChar(c) == IsLatinLetter(c) \/ c \in Digits \/ c = "_"

\* str.lower() on one character
LowerChar(c) == IF c = "A" THEN "a" ELSE c

\* str.lower()
Lower(s) == [k \in 1..Len(s) |-> LowerChar(s[k])]

\* \b at the gap before index p (1-based) of t
WordBoundary(t, p) ==
    LET before == p > 1 /\ p - 1 <= Len(t) /\ IsWordChar(t[p - 1])
        after == p >= 1 /\ p <= Len(t) /\ IsWordChar(t[p])
    IN before # after

-----------------------------------------------------------------------------
(* text_extractor.py *)

RECURSIVE ReplaceFrom(_, _, _, _)
ReplaceFrom(t, k, old, new) ==
    IF k > Len(t) THEN <<>>
    ELSE (IF t[k] = old THEN new ELSE <<t[k]>>) \o ReplaceFrom(t, k + 1, old, new)

\* str.replace(old, new) for a one-character old
Replace(t, old, new) == ReplaceFrom(t, 1, old, new)

RECURSIVE NormalizeFrom(_, _)
NormalizeFrom(t, k) ==
    IF k > Len(DIACRITIC_MAP) THEN t
    ELSE The({NormalizeFrom(r, k + 1) :
                r \in {Replace(t, DIACRITIC_MAP[k][1], DIACRITIC_MAP[k][2])}})

\* for diacritic, replacement in DIACRITIC_MAP.items(): text = text.replace(...)
normalize_diacritics(t) == NormalizeFrom(t, 1)

RECURSIVE RunEnd(_, _)
\* first index >= p of t that holds no character of the class (Len(t)+1 if none)
RunEnd(t, p) ==
    IF p > Len(t) \/ ~IsLatinLetter(t[p]) THEN p ELSE RunEnd(t, p + 1)

\* \b[class]+\b tried at index p: the end (exclusive) of the match, 0 if none.
\* The greedy + backtracks from the longest run to the shortest.
LatinWordMatchEnd(t, p) ==
    IF p > Len(t) \/ ~WordBoundary(t, p) \/ ~IsLatinLetter(t[p]) THEN 0
    ELSE LET ends == {e \in (p + 1)..RunEnd(t, p) : WordBoundary(t, e)}
         IN IF ends = {} THEN 0 ELSE CHOOSE e \in ends : \A e2 \in ends : e2 <= e

RECURSIVE FindAllFrom(_, _)
FindAllFrom(t, p) ==
    IF p > Len(t) THEN <<>>
    ELSE The({IF e = 0 THEN FindAllFrom(t, p + 1)
              ELSE <<SubSeq(t, p, e - 1)>> \o FindAllFrom(t, e) :
                e \in {LatinWordMatchEnd(t, p)}})

\* LATIN_WORD_PATTERN.findall(text)
LATIN_WORD_PATTERN_findall(t) == FindAllFrom(t, 1)

\* tokenize(text, normalize=True)
tokenize(text) ==
    The({The({[k \in 1..Len(words) |-> Lower(words[k])] :
                words \in {LATIN_WORD_PATTERN_findall(t)}}) :
            t \in {Lower(normalize_diacritics(text))}})

\* load_text raises FileNotFoundError
load_text_raises(dir, book_id) == ~dir[book_id].exists

load_text(dir, book_id) == dir[book_id].text

-----------------------------------------------------------------------------
(* analyzer.py: pure functions *)

\* Counter(tokenize(text)) as a function word -> count
calculate_frequencies(text) ==
    The({[w \in Range(words) |-> Cardinality({k \in 1..Len(words) : words[k] = w})] :
            words \in {tokenize(text)}})

\* The quotient taken with integer division: count * 10000 // total_words
calculate_relative_frequency_floor(count, total_words) ==
    IF total_words = 0 THEN Zero
    ELSE TrueDiv((count * PER_TEN_THOUSAND) \div total_words, 1)

calculate_relative_frequency(count, total_words) ==
    IF total_words = 0 THEN Zero
    ELSE FloatMulInt(TrueDiv(count, total_words), PER_TEN_THOUSAND)

\* rf'\b{re.escape(word)}\b' with re.IGNORECASE, tried at index p of text
WordMatchesAt(text, word, p) ==
    /\ p >= 1
    /\ p + Len(word) - 1 <= Len(text)
    /\ WordBoundary(text, p)
    /\ \A k \in 1..Len(word) : LowerChar(text[p + k - 1]) = LowerChar(word[k])
    /\ WordBoundary(text, p + Len(word))

Ellipsis == <<".", ".", ".">>

\* The loop body with the leading ellipsis decided by the start of the match
MakeSnippet_ellipsis_by_match_start(text, word, context_chars, p) ==
    LET mstart == p - 1
        mend == p - 1 + Len(word)
        start == Max2(0, mstart - context_chars)
        end == Min2(Len(text), mend + context_chars)
        context == SubSeq(text, start + 1, end)
        c1 == IF mstart > 0 THEN Ellipsis \o context ELSE context
        c2 == IF end < Len(text) THEN c1 \o Ellipsis ELSE c1
    IN [context |-> c2, position |-> mstart]

\* The body of the loop at analyzer.py:53-66 for a match starting at index p
\* (1-based); Python's match.start() is p - 1 and match.end() is p - 1 + len.
MakeSnippet(text, word, context_chars, p) ==
    LET mstart == p - 1
        mend == p - 1 + Len(word)
        start == Max2(0, mstart - context_chars)
        end == Min2(Len(text), mend + context_chars)
        context == SubSeq(text, start + 1, end)
        c1 == IF start > 0 THEN Ellipsis \o context ELSE context
        c2 == IF end < Len(text) THEN c1 \o Ellipsis ELSE c1
    IN [context |-> c2, position |-> mstart]

RECURSIVE SnippetLoop(_, _, _, _, _, _)
\* for match in pattern.finditer(text): ... append ... if len >= max: break
SnippetLoop(text, word, context_chars, max_snippets, p, snippets) ==
    IF p > Len(text) THEN snippets
    ELSE IF WordMatchesAt(text, word, p)
         THEN The({IF Len(s2) >= max_snippets THEN s2
                   ELSE SnippetLoop(text, word, context_chars, max_snippets,
                                    p + Max2(1, Len(word)), s2) :
                    s2 \in {Append(snippets,
                                   MakeSnippet(text, word, context_chars, p))}})
         ELSE SnippetLoop(text, word, context_chars, max_snippets, p + 1, snippets)

extract_snippets(text, word, context_chars, max_snippets) ==
    SnippetLoop(text, word, context_chars, max_snippets, 1, <<>>)

-----------------------------------------------------------------------------
(* downloader.py *)

\* The head of the BOOKS list, as (book_id, sequence_index)
BOOKS_HEAD ==
    << <<"praefatio", 0>>, <<"1", 1>>, <<"2", 2>>, <<"3", 3>> >>

BOOKS == SubSeq(BOOKS_HEAD, 1, NumBooks)

get_book_title(book_id) == IF book_id = "praefatio" THEN "Praefatio" ELSE "Book"

get_book_metadata ==
    [k \in 1..Len(BOOKS) |->
        [book_id |-> BOOKS[k][1],
         title |-> get_book_title(BOOKS[k][1]),
         sequence_index |-> BOOKS[k][2]]]

BookIds == {BOOKS[k][1] : k \in 1..Len(BOOKS)}

-----------------------------------------------------------------------------
(* The corpus: what data/texts/<book_id>.txt may hold *)

TextA == <<"a", "b", " ", "a", " ", "a", "b">>
TextB == <<"A", " ", "b", " ", "a_macron", "b">>
TextEmpty == <<>>
\* a text without a letter: digit, whitespace, punctuation
TextNoLetters == <<"1", " ", ".">>

TEXTS == {TextA, TextB, TextEmpty}

-----------------------------------------------------------------------------
(* The SQLite file at db_path *)

EmptyTables ==
    [books |-> {}, word_frequencies |-> {}, word_stats |-> {}, snippets |-> {}]

\* no file at db_path
NoFile == [file |-> FALSE, schema |-> FALSE, tables |-> EmptyTables]

\* a zero-byte file, as sqlite3.connect leaves it
EmptyFile == [file |-> TRUE, schema |-> FALSE, tables |-> EmptyTables]

\* after the executescript and commit of create_database
EmptySchema == [file |-> TRUE, schema |-> TRUE, tables |-> EmptyTables]

\* The arguments of run_analysis; scripts/run_analysis.py passes the same
\* ones on every run.
Configs ==
    [min_word_freq : 1..MaxMinWordFreq, max_snippets_per_book : 0..MaxSnippetsArg]
EmptyMap == <<>>

\* main() of app/dashboard.py is not running
PageIdle == [at |-> "idle"]

-----------------------------------------------------------------------------
(* analyzer.py: create_database and run_analysis *)

Running == {"unlinked", "created", "populated"}

Init ==
    /\ texts_dir \in [BookIds -> {File(t) : t \in TEXTS} \cup {Missing}]
    /\ cfg \in Configs
    /\ db = NoFile
    /\ pc = "idle"
    /\ txn = EmptyTables
    /\ prior = NoFile
    /\ result = NoneVal
    /\ page = PageIdle
    /\ args = NoneVal

\* run_analysis is called; create_database removes the existing file
\* (analyzer.py:76-81).
create_database_unlink ==
    /\ pc \in {"idle", "done", "failed"}
    /\ pc' = "unlinked"
    /\ prior' = db
    /\ db' = NoFile
    /\ txn' = EmptyTables
    /\ result' = NoneVal
    /\ UNCHANGED <<args, page, texts_dir, cfg>>

\* sqlite3.connect, the CREATE TABLE script and its commit (analyzer.py:83-128).
create_database_schema ==
    /\ pc = "unlinked"
    /\ db' = EmptySchema
    /\ txn' = EmptyTables
    /\ pc' = "created"
    /\ result' = NoneVal
    /\ UNCHANGED <<args, page, texts_dir, cfg, prior>>

\* f with key k set to v (a dict assignment)
DictPut(f, k, v) == [x \in DOMAIN f \cup {k} |-> IF x = k THEN v ELSE f[x]]

\* analyzer.py:181-184
Aggregate(af, book_id, frequencies) ==
    [w \in DOMAIN af \cup DOMAIN frequencies |->
        IF w \in DOMAIN frequencies
        THEN DictPut(IF w \in DOMAIN af THEN af[w] ELSE EmptyMap, book_id, frequencies[w])
        ELSE af[w]]

\* The locals of run_analysis before the loop (analyzer.py:155-157), with the
\* rows inserted into books so far.
NoBooksYet ==
    [all_frequencies |-> EmptyMap, book_totals |-> EmptyMap, book_texts |-> EmptyMap,
     books |-> {}]

\* The loop body with the INSERT INTO books left out for a book whose
\* sequence_index is 0 (a truth test on the index)
process_loaded_book_without_insert(text, meta, st) ==
    The({LET book_id == meta.book_id
             total_words == SumOver(frequencies, DOMAIN frequencies)
             unique_words == Cardinality(DOMAIN frequencies)
         IN [all_frequencies |-> Aggregate(st.all_frequencies, book_id, frequencies),
             book_totals |-> DictPut(st.book_totals, book_id, total_words),
             book_texts |-> DictPut(st.book_texts, book_id, text),
             books |-> IF meta.sequence_index = 0 THEN st.books
                       ELSE st.books \cup
                             {[book_id |-> book_id,
                               title |-> meta.title,
                               sequence_index |-> meta.sequence_index,
                               total_words |-> total_words,
                               unique_words |-> unique_words]}] :
            frequencies \in {calculate_frequencies(text)}})

\* analyzer.py:164 and 169-186: the loop body once load_text has returned
process_loaded_book(text, meta, st) ==
    The({LET book_id == meta.book_id
             total_words == SumOver(frequencies, DOMAIN frequencies)
             unique_words == Cardinality(DOMAIN frequencies)
         IN [all_frequencies |-> Aggregate(st.all_frequencies, book_id, frequencies),
             book_totals |-> DictPut(st.book_totals, book_id, total_words),
             book_texts |-> DictPut(st.book_texts, book_id, text),
             books |-> st.books \cup
                 {[book_id |-> book_id,
                   title |-> meta.title,
                   sequence_index |-> meta.sequence_index,
                   total_words |-> total_words,
                   unique_words |-> unique_words]}] :
            frequencies \in {calculate_frequencies(text)}})

\* The loop body with a missing file read as an empty text instead of skipped
process_book_without_skip(dir, meta, st) ==
    IF load_text_raises(dir, meta.book_id)
    THEN process_loaded_book(<<>>, meta, st)
    ELSE process_loaded_book(load_text(dir, meta.book_id), meta, st)

\* The loop body with a file that holds no text skipped like a missing one
process_book_skip_empty_text(dir, meta, st) ==
    IF load_text_raises(dir, meta.book_id) \/ load_text(dir, meta.book_id) = <<>>
    THEN st
    ELSE process_loaded_book(load_text(dir, meta.book_id), meta, st)

\* One iteration of the loop at analyzer.py:160-186: a FileNotFoundError of
\* load_text skips the book.
process_book(dir, meta, st) ==
    IF load_text_raises(dir, meta.book_id)
    THEN st
    ELSE process_loaded_book(load_text(dir, meta.book_id), meta, st)

RECURSIVE ProcessBooksFrom(_, _, _, _)
\* for meta in book_metadata: ... from the k-th entry on
ProcessBooksFrom(dir, book_metadata, k, st) ==
    IF k > Len(book_metadata) THEN st
    ELSE The({ProcessBooksFrom(dir, book_metadata, k + 1, st2) :
                st2 \in {process_book(dir, book_metadata[k], st)}})

book_id_to_metadata(book_metadata) ==
    [b \in {book_metadata[k].book_id : k \in 1..Len(book_metadata)} |->
        CHOOSE m \in Range(book_metadata) : m.book_id = b]

\* mean_position as the plain average of the positions of the books
WordStatOf_unweighted(word, book_counts, id_to_meta) ==
    LET total_count == SumOver(book_counts, DOMAIN book_counts)
        book_count == Cardinality(DOMAIN book_counts)
        positions == [b \in DOMAIN book_counts |-> id_to_meta[b].sequence_index]
    IN [word |-> word, total_count |-> total_count, book_count |-> book_count,
        mean_position |-> TrueDiv(SumOver(positions, DOMAIN positions), book_count)]

\* book_count taken from the occurrences instead of the books
WordStatOf_book_count_of_total(word, book_counts, id_to_meta) ==
    LET total_count == SumOver(book_counts, DOMAIN book_counts)
        weighted == [b \in DOMAIN book_counts |->
                        id_to_meta[b].sequence_index * book_counts[b]]
    IN [word |-> word, total_count |-> total_count, book_count |-> total_count,
        mean_position |-> TrueDiv(SumOver(weighted, DOMAIN weighted), total_count)]

\* analyzer.py:193-204 for one word
WordStatOf(word, book_counts, id_to_meta) ==
    LET total_count == SumOver(book_counts, DOMAIN book_counts)
        book_count == Cardinality(DOMAIN book_counts)
        known == {b \in DOMAIN book_counts : b \in DOMAIN id_to_meta}
        weighted == [b \in known |-> id_to_meta[b].sequence_index * book_counts[b]]
        weighted_sum == SumOver(weighted, known)
        mean_position == IF total_count > 0 THEN TrueDiv(weighted_sum, total_count)
                         ELSE Zero
    IN [word |-> word, total_count |-> total_count, book_count |-> book_count,
        mean_position |-> mean_position]

\* analyzer.py:207-213 for one word
WordFrequencyRows(word, book_counts, totals) ==
    {[word |-> word, book_id |-> b, count |-> book_counts[b],
      relative_frequency |-> calculate_relative_frequency(book_counts[b], totals[b])] :
        b \in {x \in DOMAIN book_counts : x \in DOMAIN totals}}

\* The selection with the threshold one too low
CommonWords_off_by_one(stats, min_word_freq) ==
    {s.word : s \in {x \in stats : x.total_count >= min_word_freq - 1}}

\* analyzer.py:223
CommonWords(stats, min_word_freq) ==
    {s.word : s \in {x \in stats : x.total_count >= min_word_freq}}

\* analyzer.py:229-234 for one word and one book
SnippetRows(word, book_id, text, max_snippets_per_book) ==
    The({{[word |-> word, book_id |-> book_id, context |-> snippets[k].context,
           position_in_book |-> snippets[k].position] : k \in 1..Len(snippets)} :
            snippets \in {extract_snippets(text, word, DEFAULT_CONTEXT_CHARS,
                                          max_snippets_per_book)}})

\* analyzer.py:188-237 on the locals st that the loop over the books left
RowsAfterLoop(st, book_metadata, config) ==
    LET af == st.all_frequencies
        id_to_meta == book_id_to_metadata(book_metadata)
        word_stats == {WordStatOf(w, af[w], id_to_meta) : w \in DOMAIN af}
        frequencies == UNION {WordFrequencyRows(w, af[w], st.book_totals) :
                                w \in DOMAIN af}
        common_words == CommonWords(word_stats, config.min_word_freq)
        snippets == UNION {SnippetRows(w, b, st.book_texts[b],
                                       config.max_snippets_per_book) :
                             w \in common_words, b \in DOMAIN st.book_texts}
    IN [books |-> st.books, word_frequencies |-> frequencies,
        word_stats |-> word_stats, snippets |-> snippets]

\* The rows run_analysis inserts between create_database and conn.commit()
\* (analyzer.py:150-237)
AnalysisRows(dir, book_metadata, config) ==
    The({RowsAfterLoop(st, book_metadata, config) :
            st \in {ProcessBooksFrom(dir, book_metadata, 1, NoBooksYet)}})

\* The body of run_analysis from analyzer.py:150 to 237: every INSERT goes to
\* the transaction the connection holds open, which no reader sees.
populate ==
    /\ pc = "created"
    /\ txn' = AnalysisRows(texts_dir, get_book_metadata, cfg)
    /\ pc' = "populated"
    /\ result' = NoneVal
    /\ UNCHANGED <<args, page, texts_dir, db, cfg, prior>>

\* conn.commit() at analyzer.py:239, then the summary and conn.close().
commit ==
    /\ pc = "populated"
    /\ db' = [file |-> TRUE, schema |-> TRUE, tables |-> txn]
    /\ txn' = EmptyTables
    /\ pc' = "done"
    /\ result' = NoneVal
    /\ UNCHANGED <<args, page, texts_dir, cfg, prior>>

\* A storage call of run_analysis raises (sqlite3.Error, OSError): the
\* exception leaves run_analysis and the connection is dropped without a
\* commit.  Before the schema is committed the file is absent; after it, the
\* file holds the empty schema.
storage_failure ==
    /\ pc \in Running
    /\ pc' = "failed"
    /\ txn' = EmptyTables
    /\ result' = NoneVal
    /\ UNCHANGED <<args, page, texts_dir, db, cfg, prior>>

-----------------------------------------------------------------------------
(* analyzer.py: the read facade *)

\* ORDER BY: all sequences that hold each element of S once, in
\* non-decreasing order of key (the order of rows with equal keys is open)
OrderBy(S, key) ==
    {s \in Perms(S) :
        \A k \in 1..(Len(s) - 1) : RatLeq(key[s[k]], key[s[k + 1]])}

\* LIMIT n: a negative n means no limit in SQLite
Limit(s, n) == IF n < 0 THEN s ELSE SubSeq(s, 1, Min2(n, Len(s)))

RECURSIVE Like(_, _)
\* SQLite's  str LIKE pat : % matches any run, _ any one character, any other
\* character matches itself without regard to ASCII case
Like(pat, str) ==
    IF pat = <<>> THEN str = <<>>
    ELSE IF Head(pat) = "%"
         THEN \E k \in 0..Len(str) : Like(Tail(pat), SubSeq(str, k + 1, Len(str)))
         ELSE /\ str # <<>>
              /\ Head(pat) = "_" \/ LowerChar(Head(pat)) = LowerChar(Head(str))
              /\ Like(Tail(pat), Tail(str))

\* sqlite3.connect(db_path) creates a zero-byte file when there is none
Connect(d) == IF d.file THEN d ELSE EmptyFile

\* The join as an inner JOIN: books without a row for the word are dropped
get_word_frequencies_inner_join(d, word) ==
    UNION {
        {[book_id |-> b.book_id, title |-> b.title,
          sequence_index |-> b.sequence_index,
          count |-> wf.count, relative_frequency |-> wf.relative_frequency] :
            wf \in {x \in d.tables.word_frequencies :
                        x.book_id = b.book_id /\ x.word = Lower(word)}}
        : b \in d.tables.books}

\* FROM books b LEFT JOIN word_frequencies wf ON ... with the COALESCEs
\* (analyzer.py:265-272), before the ORDER BY
get_word_frequencies_join(d, word) ==
    UNION {
        LET matches == {wf \in d.tables.word_frequencies :
                            wf.book_id = b.book_id /\ wf.word = Lower(word)}
        IN IF matches = {}
           THEN {[book_id |-> b.book_id, title |-> b.title,
                  sequence_index |-> b.sequence_index,
                  count |-> 0, relative_frequency |-> Zero]}
           ELSE {[book_id |-> b.book_id, title |-> b.title,
                  sequence_index |-> b.sequence_index,
                  count |-> wf.count, relative_frequency |-> wf.relative_frequency] :
                    wf \in matches}
        : b \in d.tables.books}

\* ORDER BY b.sequence_index
BySequenceIndex(S) == [r \in S |-> <<r.sequence_index, 1>>]

\* get_word_frequencies(word): analyzer.py:255-276
get_word_frequencies(word) ==
    /\ result = NoneVal
    /\ db' = Connect(db)
    /\ IF ~db.schema
       THEN result' = [kind |-> "error", op |-> "get_word_frequencies", word |-> word]
       ELSE \E S \in {get_word_frequencies_join(db, word)} :
              \E rows \in OrderBy(S, BySequenceIndex(S)) :
                result' = [kind |-> "rows", op |-> "get_word_frequencies",
                           word |-> word, rows |-> rows]
    /\ UNCHANGED <<args, page, texts_dir, pc, cfg, txn, prior>>

\* FROM snippets s JOIN books b ON s.book_id = b.book_id WHERE s.word = ?
\* with the parameter word.lower() (analyzer.py:289-295), before the ORDER BY
get_word_snippets_join(d, word) ==
    UNION {
        {[book_id |-> b.book_id, title |-> b.title,
          sequence_index |-> b.sequence_index,
          context |-> sn.context, position_in_book |-> sn.position_in_book] :
            b \in {x \in d.tables.books : x.book_id = sn.book_id}}
        : sn \in {x \in d.tables.snippets : x.word = Lower(word)}}

\* ORDER BY b.sequence_index, s.position_in_book: the two keys as one
\* number, the first key counted in units wider than any second key
BySequenceIndexAndPosition(S) ==
    LET positions == {r.position_in_book : r \in S}
        width == 1 + (IF positions = {} THEN 0
                      ELSE CHOOSE m \in positions : \A x \in positions : x <= m)
    IN [r \in S |-> <<r.sequence_index * width + r.position_in_book, 1>>]

\* get_word_snippets(word): analyzer.py:279-299
get_word_snippets(word) ==
    /\ result = NoneVal
    /\ db' = Connect(db)
    /\ IF ~db.schema
       THEN result' = [kind |-> "error", op |-> "get_word_snippets", word |-> word]
       ELSE \E S \in {get_word_snippets_join(db, word)} :
              \E rows \in OrderBy(S, BySequenceIndexAndPosition(S)) :
                result' = [kind |-> "rows", op |-> "get_word_snippets",
                           word |-> word, rows |-> rows]
    /\ UNCHANGED <<args, page, texts_dir, pc, cfg, txn, prior>>

\* WHERE total_count >= ? (analyzer.py:326)
get_words_by_position_where(d, min_count) ==
    {ws \in d.tables.word_stats : ws.total_count >= min_count}

\* ORDER BY mean_position ASC
ByMeanPositionAsc(S) == [r \in S |-> r.mean_position]
\* ORDER BY mean_position DESC
ByMeanPositionDesc(S) == [r \in S |-> <<-r.mean_position[1], r.mean_position[2]>>]

\* The order with the ascending flag ignored
get_words_by_position_order_asc_only(S, ascending) == OrderBy(S, ByMeanPositionAsc(S))

\* ORDER BY mean_position {order} (analyzer.py:322-327)
get_words_by_position_order(S, ascending) ==
    IF ascending THEN OrderBy(S, ByMeanPositionAsc(S))
    ELSE OrderBy(S, ByMeanPositionDesc(S))

\* get_words_by_position(ascending, min_count, limit): analyzer.py:302-333
get_words_by_position(ascending, min_count, limit) ==
    /\ result = NoneVal
    /\ db' = Connect(db)
    /\ IF ~db.schema
       THEN result' = [kind |-> "error", op |-> "get_words_by_position"]
       ELSE \E S \in {get_words_by_position_where(db, min_count)} :
              \E rows \in get_words_by_position_order(S, ascending) :
                result' = [kind |-> "rows", op |-> "get_words_by_position",
                           ascending |-> ascending, min_count |-> min_count,
                           limit |-> limit, rows |-> Limit(rows, limit)]
    /\ UNCHANGED <<args, page, texts_dir, pc, cfg, txn, prior>>

\* WHERE word LIKE ? with the parameter prefix.lower() + "%" (analyzer.py:345-350)
search_words_where(d, prefix) ==
    {ws \in d.tables.word_stats : Like(Lower(prefix) \o <<"%">>, ws.word)}

\* ORDER BY total_count DESC
ByTotalCountDesc(S) == [r \in S |-> <<-r.total_count, 1>>]

\* search_words(prefix, limit): analyzer.py:336-354
search_words(prefix, limit) ==
    /\ result = NoneVal
    /\ db' = Connect(db)
    /\ IF ~db.schema
       THEN result' = [kind |-> "error", op |-> "search_words"]
       ELSE \E S \in {search_words_where(db, prefix)} :
              \E rows \in OrderBy(S, ByTotalCountDesc(S)) :
                LET limited == Limit(rows, limit)
                IN result' = [kind |-> "rows", op |-> "search_words",
                              prefix |-> prefix, limit |-> limit,
                              rows |-> [k \in 1..Len(limited) |-> limited[k].word]]
    /\ UNCHANGED <<args, page, texts_dir, pc, cfg, txn, prior>>

\* The caller is done with the value the facade returned to it
reader_done ==
    /\ result # NoneVal
    /\ result' = NoneVal
    /\ UNCHANGED <<args, page, texts_dir, db, pc, cfg, txn, prior>>

\* The arguments the readers call the facade with
QueryWords == {<<"a", "b">>, <<"A">>, <<"e">>}
QueryPrefixes == {<<>>, <<"A">>, <<"_">>, <<"b">>}
QueryLimits == {-1, 0, MaxLimit}
QueryMinCounts == {1, MaxMinCount}

\* The four read operations of the facade
ReadOperations ==
    \/ \E w \in QueryWords : get_word_frequencies(w)
    \/ \E w \in QueryWords : get_word_snippets(w)
    \/ \E a \in BOOLEAN, c \in QueryMinCounts, n \in QueryLimits :
            get_words_by_position(a, c, n)
    \/ \E p \in QueryPrefixes, n \in QueryLimits : search_words(p, n)

Readers ==
    \/ ReadOperations
    \/ reader_done

Pipeline ==
    \/ create_database_unlink
    \/ create_database_schema
    \/ populate
    \/ commit
    \/ storage_failure

Next == Pipeline \/ Readers

Spec == Init /\ [][Next]_vars

\* The pipeline alone, no reader calling, over text files that may also hold
\* a text without letters
InitPipeline ==
    /\ texts_dir \in [BookIds -> {File(t) : t \in TEXTS \cup {TextNoLetters}}
                                    \cup {Missing}]
    /\ cfg \in Configs
    /\ db = NoFile
    /\ pc = "idle"
    /\ txn = EmptyTables
    /\ prior = NoFile
    /\ result = NoneVal
    /\ page = PageIdle
    /\ args = NoneVal

SpecPipeline == InitPipeline /\ [][Pipeline]_vars

-----------------------------------------------------------------------------
(* app/dashboard.py: one run of main() with a search term typed in *)

\* How a run of main() ends for the word that was looked up
PageEnd(outcome, search_term, d) ==
    [at |-> "end", outcome |-> outcome, search_term |-> search_term,
     \* history: what the store held when the run ended
     built |-> d.schema /\ d.tables.books # {},
     has_word |-> \E wf \in d.tables.word_frequencies : wf.word = search_term]

\* check_database(): dashboard.py:36-49
check_database(d) == d.file /\ d.schema /\ d.tables.books # {}

\* main() up to the text input: dashboard.py:75-88.  Without a populated
\* database the run ends at st.error (dashboard.py:77-79).
main_check_database(word) ==
    /\ page = PageIdle
    /\ page' = IF check_database(db)
               THEN [at |-> "checked", search_term |-> Lower(word)]
               ELSE PageEnd("index_not_ready", Lower(word), db)
    /\ UNCHANGED <<args, texts_dir, db, pc, cfg, txn, prior, result>>

\* dashboard.py:91-94: search_words for a term of two characters or more; an
\* sqlite3.OperationalError is not caught anywhere in main().
main_suggestions ==
    /\ page.at = "checked"
    /\ IF Len(page.search_term) >= 2
       THEN /\ db' = Connect(db)
            /\ page' = IF db.schema THEN [page EXCEPT !.at = "suggested"]
                       ELSE PageEnd("exception", page.search_term, db)
       ELSE /\ db' = db
            /\ page' = [page EXCEPT !.at = "suggested"]
    /\ UNCHANGED <<args, texts_dir, pc, cfg, txn, prior, result>>

\* get_corpus_stats() and its display: dashboard.py:52-68 and 97-102.  On an
\* empty books table SUM(total_words) is NULL and the format spec "," raises
\* TypeError on None.
main_corpus_stats ==
    /\ page.at = "suggested"
    /\ db' = Connect(db)
    /\ page' = IF db.schema /\ db.tables.books # {}
               THEN [page EXCEPT !.at = "stats"]
               ELSE PageEnd("exception", page.search_term, db)
    /\ UNCHANGED <<args, texts_dir, pc, cfg, txn, prior, result>>

\* Tab 1: dashboard.py:111-115 and the else branch from 116 on
main_word_frequency ==
    /\ page.at = "stats"
    /\ db' = Connect(db)
    /\ page' =
         IF ~db.schema THEN PageEnd("exception", page.search_term, db)
         ELSE LET frequencies == get_word_frequencies_join(db, page.search_term)
              IN IF frequencies = {} \/ \A f \in frequencies : f.count = 0
                 THEN PageEnd("word_not_found", page.search_term, db)
                 ELSE PageEnd("word_found", page.search_term, db)
    /\ UNCHANGED <<args, texts_dir, pc, cfg, txn, prior, result>>

\* Streamlit runs the script again on the next input
main_rerun ==
    /\ page.at = "end"
    /\ page' = PageIdle
    /\ UNCHANGED <<args, texts_dir, db, pc, cfg, txn, prior, result>>

Dashboard ==
    \/ \E w \in QueryWords : main_check_database(w)
    \/ main_suggestions
    \/ main_corpus_stats
    \/ main_word_frequency
    \/ main_rerun

NextDashboard == Pipeline \/ Dashboard

SpecDashboard == Init /\ [][NextDashboard]_vars

-----------------------------------------------------------------------------
(* Direct calls of tokenize (text_extractor.py) and extract_snippets
   (analyzer.py) *)

\* The characters of the texts of direct calls
TokenizeChars == {"a", "A", "b", " ", "1", "a_macron"}
SnippetChars == {"a", "A", "b", " ", "1"}
SnippetWords == {<<"a">>, <<"a", "b">>}

\* All texts of at most n characters of chars
TextsUpTo(n, chars) == UNION {[1..k -> chars] : k \in 0..n}

TokenizeArgs == [fn : {"tokenize"}, text : TextsUpTo(MaxTextLen, TokenizeChars)]

ExtractSnippetsArgs ==
    [fn : {"extract_snippets"},
     text : TextsUpTo(MaxTextLen, SnippetChars),
     word : SnippetWords,
     context_chars : 0..MaxContext,
     max_snippets : 1..MaxSnippets]

\* No pipeline, no index, no reader: one call with its arguments chosen
InitFn ==
    /\ args \in TokenizeArgs \cup ExtractSnippetsArgs
    /\ texts_dir = [b \in BookIds |-> Missing]
    /\ cfg = [min_word_freq |-> 1, max_snippets_per_book |-> 1]
    /\ db = NoFile
    /\ pc = "idle"
    /\ txn = EmptyTables
    /\ prior = NoFile
    /\ result = NoneVal
    /\ page = PageIdle

\* tokenize(text): text_extractor.py:63-83
call_tokenize ==
    /\ args.fn = "tokenize"
    /\ result = NoneVal
    /\ result' = [kind |-> "value", op |-> "tokenize", value |-> tokenize(args.text)]
    /\ UNCHANGED <<texts_dir, db, pc, cfg, txn, prior, page, args>>

\* extract_snippets(text, word, context_chars, max_snippets): analyzer.py:31-71
call_extract_snippets ==
    /\ args.fn = "extract_snippets"
    /\ result = NoneVal
    /\ result' = [kind |-> "value", op |-> "extract_snippets",
                  value |-> extract_snippets(args.text, args.word,
                                             args.context_chars, args.max_snippets)]
    /\ UNCHANGED <<texts_dir, db, pc, cfg, txn, prior, page, args>>

\* The same call is made again
call_again ==
    /\ result # NoneVal
    /\ result' = NoneVal
    /\ UNCHANGED <<texts_dir, db, pc, cfg, txn, prior, page, args>>

NextFn == call_tokenize \/ call_extract_snippets \/ call_again

SpecFn == InitFn /\ [][NextFn]_vars

-----------------------------------------------------------------------------
(* Properties *)

\* An index a completed run left: the schema with at least one book
\* (what check_database of app/dashboard.py takes for a populated index)
IsBuilt(d) == d.schema /\ d.tables.books # {}

\* The index the current run commits if it completes
NewIndex ==
    [file |-> TRUE, schema |-> TRUE,
     tables |-> AnalysisRows(texts_dir, get_book_metadata, cfg)]

Answered == result # NoneVal

\* C1: during a run that started while a built index existed, a reader's
\* query is answered from the complete prior index or from the complete new
\* index, never from a missing, empty or partial one.
C1_ReadersSeeCompleteIndex ==
    (Answered /\ pc \in Running /\ IsBuilt(prior)) =>
        /\ result.kind = "rows"
        /\ db = prior \/ db = NewIndex

\* C2: when run_analysis has failed after it started, the index that existed
\* before the run is still there with its old contents.
C2_FailureKeepsPriorIndex ==
    (pc = "failed" /\ IsBuilt(prior)) => db = prior

\* The rows of word_frequencies for a word, by book
StoredFrequency(word, book_id) ==
    {wf \in db.tables.word_frequencies : wf.word = word /\ wf.book_id = book_id}

\* C3: on an index that has its schema, get_word_frequencies answers any word
\* without raising, with exactly one record per stored book, in ascending
\* sequence_index order, holding the stored count and relative_frequency
\* where a (word, book) row exists and 0 and 0.0 where none does.
C3_CoverageCompleteness ==
    (Answered /\ result.op = "get_word_frequencies" /\ db.schema) =>
        /\ result.kind = "rows"
        /\ Len(result.rows) = Cardinality(db.tables.books)
        /\ \A b \in db.tables.books :
             \E k \in 1..Len(result.rows) :
                /\ result.rows[k].book_id = b.book_id
                /\ result.rows[k].sequence_index = b.sequence_index
                /\ \A k2 \in 1..Len(result.rows) :
                      result.rows[k2].book_id = b.book_id => k2 = k
                /\ LET stored == StoredFrequency(Lower(result.word), b.book_id)
                   IN IF stored = {}
                      THEN /\ result.rows[k].count = 0
                           /\ result.rows[k].relative_frequency = Zero
                      ELSE \E wf \in stored :
                             /\ result.rows[k].count = wf.count
                             /\ result.rows[k].relative_frequency = wf.relative_frequency
        /\ \A k \in 1..(Len(result.rows) - 1) :
             result.rows[k].sequence_index <= result.rows[k + 1].sequence_index

\* C3 witness: a word that one stored book holds and another does not
C3_Witness ==
    /\ Answered /\ result.op = "get_word_frequencies" /\ result.kind = "rows"
    /\ \E k \in 1..Len(result.rows) : result.rows[k].count = 0
    /\ \E k \in 1..Len(result.rows) : result.rows[k].count > 0

\* The stored book with a given book_id
BookRow(book_id) == CHOOSE b \in db.tables.books : b.book_id = book_id

\* C4: after a completed run every stored word_frequencies row holds count / total_words * 10000 of
\* its book when total_words > 0 and 0.0 when total_words = 0, and
\* calculate_relative_frequency does not divide by zero.
C4_RelativeFrequency ==
    /\ pc = "done" => \A wf \in db.tables.word_frequencies :
         /\ \E b \in db.tables.books : b.book_id = wf.book_id
         /\ wf.relative_frequency # ZeroDivisionError
         /\ LET total_words == BookRow(wf.book_id).total_words
            IN IF total_words > 0
               THEN wf.relative_frequency[1] * total_words
                        = wf.count * PER_TEN_THOUSAND * wf.relative_frequency[2]
               ELSE wf.relative_frequency = Zero
    /\ \A count \in 0..3 : calculate_relative_frequency(count, 0) = Zero

\* C4 witness: a committed row whose relative frequency is 2/3 * 10000
C4_Witness ==
    /\ pc = "done"
    /\ \E wf \in db.tables.word_frequencies :
         wf.count = 2 /\ BookRow(wf.book_id).total_words = 3

\* The word_frequencies rows of a word
RowsOfWord(word) == {wf \in db.tables.word_frequencies : wf.word = word}

\* sequence_index(book) * count(word, book), by book holding the word
PositionWeights(word) ==
    [b \in {wf.book_id : wf \in RowsOfWord(word)} |->
        BookRow(b).sequence_index
            * (CHOOSE wf \in RowsOfWord(word) : wf.book_id = b).count]

CountsOfWord(word) ==
    [b \in {wf.book_id : wf \in RowsOfWord(word)} |->
        (CHOOSE wf \in RowsOfWord(word) : wf.book_id = b).count]

\* C5: after a completed run, for every word_stats row, mean_position * total_count is the sum over
\* the books holding the word of sequence_index * count, and mean_position
\* lies between the least and the greatest sequence_index of those books.
C5_MeanPosition ==
    pc = "done" => \A ws \in db.tables.word_stats :
        LET weights == PositionWeights(ws.word)
            seqs == {BookRow(b).sequence_index : b \in DOMAIN weights}
        IN /\ ws.mean_position[2] > 0
           /\ ws.mean_position[1] * ws.total_count
                = SumOver(weights, DOMAIN weights) * ws.mean_position[2]
           /\ seqs # {}
           /\ \E lo \in seqs : /\ \A x \in seqs : lo <= x
                               /\ RatLeq(<<lo, 1>>, ws.mean_position)
           /\ \E hi \in seqs : /\ \A x \in seqs : x <= hi
                               /\ RatLeq(ws.mean_position, <<hi, 1>>)

\* C5 witness: a committed word with unequal counts in two books, whose
\* weighted mean differs from the plain mean of the two positions
C5_Witness ==
    /\ pc = "done"
    /\ \E ws \in db.tables.word_stats :
         /\ ws.book_count = 2
         /\ \E w1, w2 \in RowsOfWord(ws.word) : w1.count < w2.count

\* C6: after a completed run word_stats has exactly one row per word that has a word_frequencies
\* row, with total_count the sum of the word's counts and book_count the
\* number of books that have a row for it.
C6_WordStatAggregates ==
    pc = "done" =>
    /\ {ws.word : ws \in db.tables.word_stats}
         = {wf.word : wf \in db.tables.word_frequencies}
    /\ \A ws \in db.tables.word_stats :
         /\ Cardinality({x \in db.tables.word_stats : x.word = ws.word}) = 1
         /\ ws.total_count = SumOver(CountsOfWord(ws.word), DOMAIN CountsOfWord(ws.word))
         /\ ws.book_count = Cardinality({wf.book_id : wf \in RowsOfWord(ws.word)})
         /\ \A wf \in RowsOfWord(ws.word) : wf.count > 0

\* C6 witness: a committed word that two books hold, more than twice in all
C6_Witness ==
    /\ pc = "done"
    /\ \E ws \in db.tables.word_stats : ws.book_count = 2 /\ ws.total_count > 2

\* C7: after a run with max_snippets_per_book = m >= 0, no (word, book) pair
\* has more than m snippets rows (extract_snippets returns at most m).
C7_SnippetBound ==
    pc = "done" =>
        \A w \in {sn.word : sn \in db.tables.snippets}, b \in BookIds :
            Cardinality({sn \in db.tables.snippets : sn.word = w /\ sn.book_id = b})
                <= cfg.max_snippets_per_book

IsOrderedByMeanPosition(rows, ascending) ==
    \A k \in 1..(Len(rows) - 1) :
        IF ascending THEN RatLeq(rows[k].mean_position, rows[k + 1].mean_position)
        ELSE RatLeq(rows[k + 1].mean_position, rows[k].mean_position)

\* What C8 says of get_words_by_position apart from the number of rows
C8_FilterAndOrder ==
    /\ result.kind = "rows"
    /\ \A k \in 1..Len(result.rows) :
         /\ result.rows[k] \in db.tables.word_stats
         /\ result.rows[k].total_count >= result.min_count
    /\ \A k1, k2 \in 1..Len(result.rows) : result.rows[k1] = result.rows[k2] => k1 = k2
    /\ IsOrderedByMeanPosition(result.rows, result.ascending)

StartsWith(s, p) == Len(p) <= Len(s) /\ SubSeq(s, 1, Len(p)) = p

\* C9: search_words returns only stored words that literally start with the
\* lowercased prefix, in non-increasing total_count order, and at most limit
\* of them (limit read as a number of rows, so limit >= 0).
C9_PrefixSearch ==
    (Answered /\ result.op = "search_words" /\ db.schema) =>
        /\ result.kind = "rows"
        /\ \A k \in 1..Len(result.rows) :
             /\ \E ws \in db.tables.word_stats : ws.word = result.rows[k]
             /\ StartsWith(result.rows[k], Lower(result.prefix))
        /\ \A k \in 1..(Len(result.rows) - 1) :
             \E w1, w2 \in db.tables.word_stats :
                /\ w1.word = result.rows[k] /\ w2.word = result.rows[k + 1]
                /\ w1.total_count >= w2.total_count
        /\ result.limit >= 0 => Len(result.rows) <= result.limit

\* The books whose text file exists
PresentMetadata == SelectSeq(get_book_metadata, LAMBDA m : texts_dir[m.book_id].exists)
MissingBooks == {b \in BookIds : ~texts_dir[b].exists}

\* C10: a run with missing text files commits; a missing book has no books,
\* word_frequencies or snippets row, and the tables are those of a run over
\* the metadata list without the missing books.
C10_MissingBooksSkipped ==
    pc = "done" =>
        /\ \A b \in MissingBooks :
             /\ \A r \in db.tables.books : r.book_id # b
             /\ \A r \in db.tables.word_frequencies : r.book_id # b
             /\ \A r \in db.tables.snippets : r.book_id # b
        /\ {r.book_id : r \in db.tables.books} = BookIds \ MissingBooks
        /\ db.tables = AnalysisRows(texts_dir, PresentMetadata, cfg)

\* C10 witness: a committed run with one text file missing and one present,
\* the present book with its frequencies
C10_Witness ==
    /\ pc = "done"
    /\ MissingBooks # {}
    /\ db.tables.word_frequencies # {}

\* The books whose text file exists and yields no token
ZeroTokenBooks ==
    {b \in BookIds : texts_dir[b].exists /\ tokenize(texts_dir[b].text) = <<>>}

\* The directory with the file of book_id taken away
WithoutBook(dir, book_id) == [dir EXCEPT ![book_id] = Missing]

\* C11: after a completed run, a book whose text yields zero tokens has one
\* books row with total_words = 0 and unique_words = 0 and no
\* word_frequencies row; word_stats is what the run stores without that
\* book; no stored quotient is a division by zero.
C11_ZeroTokenBook ==
    pc = "done" =>
        /\ \A b \in ZeroTokenBooks :
             /\ \E r \in db.tables.books : r.book_id = b
             /\ \A r \in db.tables.books :
                   r.book_id = b => r.total_words = 0 /\ r.unique_words = 0
             /\ \A wf \in db.tables.word_frequencies : wf.book_id # b
             /\ db.tables.word_stats
                   = AnalysisRows(WithoutBook(texts_dir, b), get_book_metadata,
                                  cfg).word_stats
        /\ ZeroTokenBooks # {} =>
             /\ \A wf \in db.tables.word_frequencies :
                   wf.relative_frequency # ZeroDivisionError
             /\ \A ws \in db.tables.word_stats :
                   ws.mean_position # ZeroDivisionError

\* C11 witness: a committed run over a book whose text has characters but
\* no letter and a book with words
C11_Witness ==
    /\ pc = "done"
    /\ \E b \in ZeroTokenBooks : texts_dir[b].text # <<>>
    /\ db.tables.word_stats # {}
    /\ \E r \in db.tables.books : r.total_words = 0

\* C12: a run of main() that looks a word up while the store holds no built
\* index ends at "index not ready", and "word not found" is only reported
\* when the store holds a built index without the word.
C12_IndexNotReady ==
    page.at = "end" =>
        /\ ~page.built => page.outcome = "index_not_ready"
        /\ page.outcome = "word_not_found" => page.built /\ ~page.has_word

\* C13: no step of get_word_frequencies, get_word_snippets,
\* get_words_by_position or search_words changes the store: not its rows,
\* not its schema, and not whether the file at db_path exists.
C13_ReadsLeaveStoreUnchanged == [][ReadOperations => db' = db]_vars

\* C14: after a completed run every word_frequencies row and every snippets
\* row has the book_id of a stored books row.
C14_NoOrphanRows ==
    pc = "done" =>
        LET stored == {b.book_id : b \in db.tables.books}
        IN /\ \A wf \in db.tables.word_frequencies : wf.book_id \in stored
           /\ \A sn \in db.tables.snippets : sn.book_id \in stored

\* C14 witness: a committed run that skipped a book and stored frequencies
\* and snippets for another
C14_Witness ==
    /\ pc = "done"
    /\ MissingBooks # {}
    /\ db.tables.word_frequencies # {}
    /\ db.tables.snippets # {}

\* The word_stats row of a word
WordStatRow(word) == CHOOSE ws \in db.tables.word_stats : ws.word = word

\* C17: after a completed run with threshold min_word_freq every snippets
\* row belongs to a word that has a word_stats row with
\* total_count >= min_word_freq; a word below the threshold has no snippets
\* row in any book.
C17_SnippetsOnlyForCommonWords ==
    pc = "done" =>
        /\ \A sn \in db.tables.snippets :
             /\ \E ws \in db.tables.word_stats : ws.word = sn.word
             /\ WordStatRow(sn.word).total_count >= cfg.min_word_freq
        /\ \A ws \in db.tables.word_stats :
             ws.total_count < cfg.min_word_freq =>
                \A sn \in db.tables.snippets : sn.word # ws.word

\* C17 witness: a committed run that stored snippets for one word and none
\* for another word, which is below the threshold
C17_Witness ==
    /\ pc = "done"
    /\ db.tables.snippets # {}
    /\ \E ws \in db.tables.word_stats :
         /\ ws.total_count < cfg.min_word_freq
         /\ \A sn \in db.tables.snippets : sn.word # ws.word

RECURSIVE LetterRunsFrom(_, _)
\* The maximal runs of letters of t from index p on, each normalized
LetterRunsFrom(t, p) ==
    IF p > Len(t) THEN <<>>
    ELSE IF ~IsLatinLetter(t[p]) THEN LetterRunsFrom(t, p + 1)
    ELSE <<Lower(normalize_diacritics(SubSeq(t, p, RunEnd(t, p) - 1)))>>
            \o LetterRunsFrom(t, RunEnd(t, p))

\* C15: tokenize returns, in text order, exactly the maximal runs of letters
\* of its input, each normalized; every character that is not a letter
\* (punctuation, digit, whitespace) ends a run and belongs to no token.
C15_TokenizeLetterRuns ==
    (Answered /\ result.op = "tokenize") =>
        /\ result.value = LetterRunsFrom(args.text, 1)
        /\ \A k \in 1..Len(result.value) :
             \A j \in 1..Len(result.value[k]) : IsLatinLetter(result.value[k][j])

\* The 0-based positions at which the word of the call matches its text
MatchPositions ==
    {s \in 0..Len(args.text) : WordMatchesAt(args.text, args.word, s + 1)}

\* C16: every snippet extract_snippets returns has the position s of a match
\* [s, e) of the word and the context text[max(0, s - c) : min(n, e + c)],
\* which holds the whole match, with "..." in front exactly when
\* max(0, s - c) > 0 and "..." behind exactly when min(n, e + c) < n; the
\* snippets are those of the first matches in text order, up to max_snippets.
C16_SnippetWindow ==
    (Answered /\ result.op = "extract_snippets") =>
        LET n == Len(args.text)
            c == args.context_chars
            snippets == result.value
        IN /\ \A k \in 1..Len(snippets) :
                LET s == snippets[k].position
                    e == s + Len(args.word)
                    lo == IF s - c > 0 THEN s - c ELSE 0
                    hi == IF e + c < n THEN e + c ELSE n
                    window == [j \in 1..(hi - lo) |-> args.text[lo + j]]
                IN /\ s \in MatchPositions
                   /\ lo <= s /\ e <= hi
                   /\ snippets[k].context =
                        (IF lo > 0 THEN <<".", ".", ".">> ELSE <<>>)
                            \o window
                            \o (IF hi < n THEN <<".", ".", ".">> ELSE <<>>)
           /\ \A k \in 1..(Len(snippets) - 1) :
                snippets[k].position < snippets[k + 1].position
           /\ Len(snippets) = Min2(Cardinality(MatchPositions), args.max_snippets)
           /\ \A s \in MatchPositions :
                (\E k \in 1..Len(snippets) : snippets[k].position = s)
                \/ (\A k \in 1..Len(snippets) : snippets[k].position < s)

\* C16 witness: a call that returned two snippets, one cut at both ends of
\* its window and one whose window starts at the start of the text
C16_Witness ==
    /\ Answered /\ result.op = "extract_snippets"
    /\ Len(result.value) = 2
    /\ result.value[1].position - args.context_chars <= 0
    /\ result.value[2].position - args.context_chars > 0
    /\ result.value[2].position + Len(args.word) + args.context_chars < Len(args.text)

=============================================================================
